---- MODULE Spec2Model ----
(***************************************************************************)
(* The provider manager of the gateway (createProviderManager): one        *)
(* cancellable background task per connector kind, started and stopped by  *)
(* async functions that run on a single event loop.  Every action below is *)
(* one synchronous segment of the source: the code between two awaits of   *)
(* an async function, or one promise callback (.catch, .finally).          *)
(***************************************************************************)
EXTENDS Integers, Sequences, FiniteSets, Bags, TLC

----------------------------------------------------------------------------
(* Bounds of the model. *)

\* start/stop calls of direct callers that may be in flight at the same time
MaxCalls == 2
\* connector tasks launched in one behaviour
MaxTasks == 2
\* the readings of Date.now() are 1..MaxClock
MaxClock == 1
\* the record objects the heap holds at most
MaxRecs == 6
\* the lastDisconnect objects the connector reports at most
MaxDiscs == 1
\* the snapshots taken at most
MaxSnaps == 1
\* the requests the HTTP listener is called with in one behaviour
MaxReqs == 2
\* the longest run of one character in a trigger phrase
MaxRun == 65
\* the blanks before, inside and after a trigger phrase at most
MaxPad == 1
\* the filler entries of a trigger list at most
MaxFill == 33

----------------------------------------------------------------------------
(* Values. *)

\* the null of a nullable string field (lastError, mode, baseUrl, ...)
Null == "<null>"
\* the null of a timestamp, of a task handle and of an AbortController
NoTime == 0
NoTask == 0
NoAbort == 0

Kinds == {"whatsapp", "telegram", "discord", "signal", "imessage"}

\* the connectors in the order the manager declares them, not the order
\* startProviders awaits them in
ProviderOrderAsDeclared == <<"whatsapp", "telegram", "discord", "signal", "imessage">>

\* the order of startProviders
ProviderOrder == <<"whatsapp", "discord", "telegram", "signal", "imessage">>

\* JavaScript values of the fields formatError reads
Undefined == [ty |-> "undefined", n |-> 0, s |-> ""]
NumV(n) == [ty |-> "number", n |-> n, s |-> ""]
StrV(s) == [ty |-> "string", n |-> 0, s |-> s]

\* values a connector task may reject with
ErrorValue(msg) == [kind |-> "Error", message |-> msg, status |-> Undefined, code |-> Undefined]
StringValue(s) == [kind |-> "string", message |-> s, status |-> Undefined, code |-> Undefined]
ObjectValue(status, code) == [kind |-> "object", message |-> "", status |-> status, code |-> code]
NoErr == [kind |-> "none", message |-> "", status |-> Undefined, code |-> Undefined]
\* the values undefined and null, and an object that refers to itself
UndefinedValue == [kind |-> "undefined", message |-> "", status |-> Undefined, code |-> Undefined]
NullValue == [kind |-> "null", message |-> "", status |-> Undefined, code |-> Undefined]
CircularValue(status) == [kind |-> "circular", message |-> "", status |-> status, code |-> Undefined]

\* undefined, where a function is to return a text
UndefinedResult == "<undefined>"

\* the value the connector tasks of the model reject with
TaskErrors == {ObjectValue(NumV(500), StrV("EPIPE"))}

\* String(v) of a string or a number; undefined otherwise (the empty text is
\* falsy, as undefined is, and both are dropped by filter(Boolean))
FieldText(v) ==
    IF v.ty = "string" THEN v.s
    ELSE IF v.ty = "number" THEN ToString(v.n)
    ELSE ""

\* JSON.stringify(err, null, 2) of the plain objects of the model
JsonDump(err) ==
    IF err.kind = "undefined" THEN UndefinedResult
    ELSE IF err.kind = "null" THEN "null"
    ELSE IF err.status.ty = "string" /\ err.code.ty = "string"
    THEN "{\n  \"status\": \"\",\n  \"code\": \"\"\n}"
    ELSE IF err.status.ty = "string" THEN "{\n  \"status\": \"\"\n}"
    ELSE IF err.code.ty = "string" THEN "{\n  \"code\": \"\"\n}"
    ELSE "{}"

\* JSON.stringify(err, null, 2) throws: the object refers to itself
StringifyThrows(err) == err.kind = "circular"

\* String(err) of the values that reach the catch block or are no objects
ToText(err) ==
    IF err.kind = "undefined" THEN "undefined"
    ELSE IF err.kind = "null" THEN "null"
    ELSE "[object Object]"

formatError(err) ==
    IF err.kind = "Error" THEN err.message
    ELSE IF err.kind = "string" THEN err.message
    ELSE LET statusText == FieldText(err.status)
             codeText == FieldText(err.code)
         IN  IF statusText # "" /\ codeText # "" THEN statusText \o " " \o codeText
             ELSE IF statusText # "" THEN statusText
             ELSE IF codeText # "" THEN codeText
             ELSE IF StringifyThrows(err) THEN ToText(err)
             ELSE JsonDump(err)

----------------------------------------------------------------------------
(* Configuration, as one call of loadConfig() and the environment give it. *)

\* present: cfg.<kind> is defined;  disabled: cfg.<kind>.enabled === false;
\* cred: the bot token is non-blank (telegram, discord) or the signal section
\* is meaningfully configured;  webhook: cfg.telegram.webhookUrl is set
WhatsAppConfigs ==
    {[present |-> p, disabled |-> d, cred |-> TRUE, webhook |-> FALSE] :
        p \in BOOLEAN, d \in BOOLEAN}
    \ {[present |-> FALSE, disabled |-> TRUE, cred |-> TRUE, webhook |-> FALSE]}

\* webhookUrl is read only by a start that got past the short-circuits
TelegramConfigs ==
    {[present |-> TRUE, disabled |-> d, cred |-> c, webhook |-> FALSE] :
        d \in BOOLEAN, c \in BOOLEAN}
    \cup {[present |-> TRUE, disabled |-> FALSE, cred |-> TRUE, webhook |-> TRUE]}

DiscordConfigs ==
    {[present |-> TRUE, disabled |-> d, cred |-> c, webhook |-> FALSE] :
        d \in BOOLEAN, c \in BOOLEAN}

SignalConfigs ==
    {[present |-> TRUE, disabled |-> d, cred |-> c, webhook |-> FALSE] :
        d \in BOOLEAN, c \in BOOLEAN}
    \cup {[present |-> FALSE, disabled |-> FALSE, cred |-> FALSE, webhook |-> FALSE]}

IMessageConfigs ==
    {[present |-> TRUE, disabled |-> d, cred |-> TRUE, webhook |-> FALSE] : d \in BOOLEAN}
    \cup {[present |-> FALSE, disabled |-> FALSE, cred |-> TRUE, webhook |-> FALSE]}

Configs(k) ==
    IF k = "whatsapp" THEN WhatsAppConfigs
    ELSE IF k = "telegram" THEN TelegramConfigs
    ELSE IF k = "discord" THEN DiscordConfigs
    ELSE IF k = "signal" THEN SignalConfigs
    ELSE IMessageConfigs

NoCfg == [present |-> FALSE, disabled |-> FALSE, cred |-> FALSE, webhook |-> FALSE]

\* a start that does not look at the enabled flag
SkipReasonIgnoresDisabled(k, cfg) ==
    IF k = "whatsapp" THEN Null
    ELSE IF k \in {"telegram", "discord"}
    THEN (IF ~cfg.cred THEN "not configured" ELSE Null)
    ELSE IF k = "signal"
    THEN (IF ~cfg.present \/ ~cfg.cred THEN "not configured" ELSE Null)
    ELSE (IF ~cfg.present THEN "not configured" ELSE Null)

\* the lastError of the synchronous short-circuits of start, Null when the
\* start goes on
SkipReason(k, cfg) ==
    IF k = "whatsapp" THEN (IF cfg.disabled THEN "disabled" ELSE Null)
    ELSE IF k \in {"telegram", "discord"}
    THEN (IF cfg.disabled THEN "disabled"
          ELSE IF ~cfg.cred THEN "not configured"
          ELSE Null)
    ELSE IF k = "signal"
    THEN (IF ~cfg.present THEN "not configured"
          ELSE IF cfg.disabled THEN "disabled"
          ELSE IF ~cfg.cred THEN "not configured"
          ELSE Null)
    ELSE (IF ~cfg.present THEN "not configured"
          ELSE IF cfg.disabled THEN "disabled"
          ELSE Null)

\* the starts that suspend before they launch: await webAuthExists(),
\* await probeTelegram(...), await probeDiscord(...)
HasAwait(k) == k \in {"whatsapp", "telegram", "discord"}

----------------------------------------------------------------------------
(* The status records. *)

InitRuntime(k) ==
    IF k = "whatsapp"
    THEN [running |-> FALSE, connected |-> FALSE, reconnectAttempts |-> 0,
          lastConnectedAt |-> NoTime, lastDisconnect |-> Null,
          lastMessageAt |-> NoTime, lastEventAt |-> NoTime, lastError |-> Null]
    ELSE IF k = "telegram"
    THEN [running |-> FALSE, lastStartAt |-> NoTime, lastStopAt |-> NoTime,
          lastError |-> Null, mode |-> Null]
    ELSE IF k = "discord"
    THEN [running |-> FALSE, lastStartAt |-> NoTime, lastStopAt |-> NoTime,
          lastError |-> Null]
    ELSE IF k = "signal"
    THEN [running |-> FALSE, lastStartAt |-> NoTime, lastStopAt |-> NoTime,
          lastError |-> Null, baseUrl |-> Null]
    ELSE [running |-> FALSE, lastStartAt |-> NoTime, lastStopAt |-> NoTime,
          lastError |-> Null, cliPath |-> Null, dbPath |-> Null]

\* the record a skipped start writes
SkipStatus(k, r, reason) ==
    IF k = "whatsapp"
    THEN [r EXCEPT !.running = FALSE, !.connected = FALSE, !.lastError = reason]
    ELSE [r EXCEPT !.running = FALSE, !.lastError = reason]

\* the record a start writes right before it launches the task
RunningStatus(k, r, cfg, now) ==
    IF k = "whatsapp"
    THEN [r EXCEPT !.running = TRUE, !.connected = FALSE, !.lastError = Null]
    ELSE IF k = "telegram"
    THEN [r EXCEPT !.running = TRUE, !.lastStartAt = now, !.lastError = Null,
                   !.mode = IF cfg.webhook THEN "webhook" ELSE "polling"]
    ELSE IF k = "discord"
    THEN [r EXCEPT !.running = TRUE, !.lastStartAt = now, !.lastError = Null]
    ELSE IF k = "signal"
    THEN [r EXCEPT !.running = TRUE, !.lastStartAt = now, !.lastError = Null,
                   !.baseUrl = "http://" \o "127.0.0.1" \o ":" \o ToString(8080)]
    ELSE [r EXCEPT !.running = TRUE, !.lastStartAt = now, !.lastError = Null,
                   !.cliPath = "imsg", !.dbPath = Null]

\* the record the .catch callback writes
CaughtStatus(k, r, err) == [r EXCEPT !.lastError = formatError(err)]

\* a settlement that forgets running: false
StoppedStatusStillRunning(k, r, now) ==
    IF k = "whatsapp"
    THEN [r EXCEPT !.connected = FALSE]
    ELSE [r EXCEPT !.lastStopAt = now]

\* the record the .finally callback and the tail of stop write
StoppedStatus(k, r, now) ==
    IF k = "whatsapp"
    THEN [r EXCEPT !.running = FALSE, !.connected = FALSE]
    ELSE [r EXCEPT !.running = FALSE, !.lastStopAt = now]

\* a logged-out signal that ignores the cleared flag
LoggedOutStatusAlways(r, cleared) ==
    [r EXCEPT !.running = FALSE, !.connected = FALSE, !.lastError = "logged out"]

\* the record markWhatsAppLoggedOut writes
LoggedOutStatus(r, cleared) ==
    [r EXCEPT !.running = FALSE, !.connected = FALSE,
              !.lastError = IF cleared THEN "logged out" ELSE r.lastError]

\* what reading a key gives when the object pushed through the sink has no
\* such key
Unreported == "<undefined>"

\* objects the web connector pushes through its status sink; lastError is
\* reported (as null) or left out
SinkStatuses ==
    {[running |-> rn, connected |-> cn, reconnectAttempts |-> 0,
      lastConnectedAt |-> NoTime, lastDisconnect |-> Null,
      lastMessageAt |-> NoTime, lastEventAt |-> NoTime, lastError |-> le] :
        rn \in BOOLEAN, cn \in BOOLEAN, le \in {Null, Unreported}}

----------------------------------------------------------------------------
(* HTTP requests, hook configurations and responses. *)

\* no token: the header or the query parameter is absent
NoToken == ""
\* a field a mapped action does not carry
NotGiven == "<undefined>"

Methods == {"POST", "GET"}
Tokens == {NoToken, "secret", "wrong"}
WakeModes == {"now", "next-heartbeat"}

\* url.pathname, by segment
Paths == {<<"hooks">>, <<"hooks", "wake">>, <<"hooks", "agent">>, <<"hooks", "github">>, <<"ui">>}

\* hooksConfig.maxBodyBytes of the configurations of the model
MaxBodyBytes == 1
\* the body sizes a request may have
BodyLens == 0..(MaxBodyBytes + 1)

\* hooksConfig: null
HooksOff == [present |-> FALSE, basePath |-> <<>>, token |-> NoToken, maxBodyBytes |-> 0, mappings |-> 0]
\* hooksConfig with n mapping rules
HooksOn(n) == [present |-> TRUE, basePath |-> <<"hooks">>, token |-> "secret", maxBodyBytes |-> MaxBodyBytes, mappings |-> n]
HooksConfigs == {HooksOff, HooksOn(0), HooksOn(1)}

\* the body of a response: text, or the fields of a JSON object
NoJson == [ok |-> "", error |-> "", mode |-> "", runId |-> ""]
NoRes == [status |-> 0, allow |-> "", type |-> "", text |-> "", json |-> NoJson]
\* res.statusCode = status; Content-Type: text/plain; res.end(text)
TextRes(status, text) == [NoRes EXCEPT !.status = status, !.type = "text/plain", !.text = text]
\* sendJson(res, status, body)
sendJson(status, body) == [NoRes EXCEPT !.status = status, !.type = "application/json", !.json = body]
\* { ok: false, error }
ErrorBody(error) == [NoJson EXCEPT !.ok = "false", !.error = error]

\* the argument of a dispatch callback
NoCall == [hook |-> "", text |-> "", mode |-> "", message |-> "", name |-> "",
           sessionKey |-> "", deliver |-> FALSE, channel |-> ""]
WakeCall(text, mode) == [NoCall EXCEPT !.hook = "wake", !.text = text, !.mode = mode]
AgentCall(message, name, wakeMode, sessionKey, deliver, channel) ==
    [NoCall EXCEPT !.hook = "agent", !.message = message, !.name = name, !.mode = wakeMode,
                   !.sessionKey = sessionKey, !.deliver = deliver, !.channel = channel]

\* the listener before its first request
NoReq == [pc |-> "none", upgrade |-> FALSE, method |-> "", path |-> <<>>,
          header |-> NoToken, query |-> NoToken, bodyLen |-> 0, bodyJson |-> "unread",
          log |-> <<>>, declined |-> <<>>, dispatched |-> <<>>, threw |-> "", caught |-> "",
          handled |-> FALSE, res |-> NoRes]

\* url.pathname === basePath || url.pathname.startsWith(`${basePath}/`)
UnderBasePath(path, base) == Len(path) >= Len(base) /\ SubSeq(path, 1, Len(base)) = base

\* url.pathname.slice(basePath.length).replace(/^\/+/, "")
SubPath(path, base) == SubSeq(path, Len(base) + 1, Len(path))

extractHookTokenQueryFirst(header, query) == IF query # NoToken THEN query ELSE header

\* extractHookToken(req, url): the header's token, else the query parameter's
extractHookToken(header, query) == IF header # NoToken THEN header ELSE query

\* readJsonBody(req, maxBytes) of a body of len bytes whose text is json
readJsonBody(len, json, maxBytes) ==
    IF len > maxBytes THEN [ok |-> FALSE, error |-> "payload too large"]
    ELSE IF json = "invalid" THEN [ok |-> FALSE, error |-> "invalid json"]
    ELSE [ok |-> TRUE, error |-> ""]

\* what normalizeWakePayload(payload) can return
WakeResults ==
    {[ok |-> FALSE, error |-> "text required", text |-> "", mode |-> ""]}
      \cup {[ok |-> TRUE, error |-> "", text |-> "ping", mode |-> m] : m \in WakeModes}

\* what normalizeAgentPayload(payload) can return
AgentResults ==
    {[ok |-> FALSE, error |-> "message required", value |-> NoCall],
     [ok |-> TRUE, error |-> "",
      value |-> AgentCall("build", "CI", "now", "hook:ci", TRUE, "telegram")]}

\* mapped.action of a matched agent rule
MappedAgents ==
    {[kind |-> "agent", text |-> "", message |-> "pushed", mode |-> "now",
      name |-> nm, sessionKey |-> sk, deliver |-> dl, channel |-> ch] :
        nm \in {NotGiven, "GitHub"}, sk \in {NotGiven}, dl \in {NotGiven, "true", "false"},
        ch \in {NotGiven, "discord"}}

\* mapped.action of a matched wake rule
MappedWakes ==
    {[kind |-> "wake", text |-> "pushed", message |-> "", mode |-> m,
      name |-> NotGiven, sessionKey |-> NotGiven, deliver |-> NotGiven, channel |-> NotGiven] :
        m \in WakeModes}

\* action: null of a matched rule
NoAction == [kind |-> "null", text |-> "", message |-> "", mode |-> "",
             name |-> NotGiven, sessionKey |-> NotGiven, deliver |-> NotGiven, channel |-> NotGiven]

\* what applyHookMappings(...) can resolve to; "null" is no rule matched
MappedResults ==
    {[matched |-> FALSE, ok |-> FALSE, error |-> "", action |-> NoAction],
     [matched |-> TRUE, ok |-> FALSE, error |-> "template failed", action |-> NoAction]}
      \cup {[matched |-> TRUE, ok |-> TRUE, error |-> "", action |-> a] :
               a \in {NoAction} \cup MappedWakes \cup MappedAgents}

\* the value dispatchAgentHook returns
RunIds == {"run-1"}

OrElseAlways(x, d) == d

\* x ?? d
OrElse(x, d) == IF x = NotGiven THEN d ELSE x

----------------------------------------------------------------------------
(* Voice wake triggers: texts as sequences of characters. *)

\* .slice(0, 32) of the list and .slice(0, 64) of each entry
MaxTriggers == 32
MaxTriggerChars == 64

\* n times the character c
Run(c, n) == [i \in 1..n |-> c]

\* lead blanks, n times "a", gap blanks, m times "b", trail blanks
Phrase(lead, n, gap, m, trail) ==
    Run(" ", lead) \o Run("a", n) \o Run(" ", gap) \o Run("b", m) \o Run(" ", trail)

\* the lengths of the runs of "a": short ones, and those about the entry cap
RunLens == (0..2) \cup ((MaxTriggerChars - 2)..MaxRun)

\* an element of the input list: a string, or a value that is not a string
Str(chars) == [isString |-> TRUE, chars |-> chars]
NotAString == [isString |-> FALSE, chars |-> <<>>]

Elements ==
    {NotAString} \cup
    {Str(Phrase(lead, n, gap, m, trail)) :
        lead \in 0..MaxPad, n \in RunLens, gap \in 0..MaxPad, m \in 0..1, trail \in 0..MaxPad}

\* the entry the lists of the model are filled up with
Filler == Str(<<"o", "k">>)

\* the inputs: a value that is not an array, and the arrays of k fillers
\* followed by no element, by one element, or by the same element twice
TriggerInputs ==
    {[isArray |-> FALSE, items |-> <<>>]} \cup
    {[isArray |-> TRUE, items |-> [i \in 1..k |-> Filler] \o tail] :
        k \in 0..MaxFill, tail \in {<<>>} \cup {<<e>> : e \in Elements} \cup {<<e, e>> : e \in Elements}}

\* defaultVoiceWakeTriggers()
defaultVoiceWakeTriggers == <<<<"c", "l", "a", "w", "d">>, <<"c", "o", "m", "p", "u", "t", "e", "r">>>>

\* v.trim()
Trim(chars) ==
    LET inked == {i \in 1..Len(chars) : chars[i] # " "} IN
    IF inked = {} THEN <<>>
    ELSE SubSeq(chars, CHOOSE i \in inked : \A j \in inked : i <= j,
                       CHOOSE i \in inked : \A j \in inked : i >= j)

\* seq.slice(0, n)
SliceTo(seq, n) == SubSeq(seq, 1, IF Len(seq) < n THEN Len(seq) ELSE n)

NotEmpty(chars) == Len(chars) > 0

normalizeVoiceWakeTriggers(input) ==
    LET raw == IF input.isArray THEN input.items ELSE <<>>
        trimmed == [i \in 1..Len(raw) |-> IF raw[i].isString THEN Trim(raw[i].chars) ELSE <<>>]
        kept == SliceTo(SelectSeq(trimmed, NotEmpty), MaxTriggers)
        cleaned == [i \in 1..Len(kept) |-> SliceTo(kept[i], MaxTriggerChars)]
    IN  IF Len(cleaned) > 0 THEN cleaned ELSE defaultVoiceWakeTriggers

----------------------------------------------------------------------------
(* The values formatError is called with. *)

Messages == {"boom", "", "connection lost", "timed out", "socket hang up"}
StatusValues == {Undefined, StrV(""), StrV("429"), NumV(0), NumV(404), NumV(500)}
CodeValues == {Undefined, StrV(""), StrV("EPIPE"), StrV("ENOENT"), NumV(0), NumV(7)}

FormatInputs ==
    {[ErrorValue(m) EXCEPT !.status = st, !.code = cd] :
        m \in Messages, st \in {Undefined, NumV(500)}, cd \in {Undefined, StrV("EPIPE")}}
      \cup {StringValue(m) : m \in Messages}
      \cup {ObjectValue(st, cd) : st \in StatusValues, cd \in CodeValues}
      \cup {CircularValue(st) : st \in {Undefined, NumV(500)}}
      \cup {UndefinedValue, NullValue}

\* formatError has not been called
NotCalled == "<not called>"

----------------------------------------------------------------------------
(* State. *)

VARIABLES
    abortCtl,   \* whatsappAbort ... imessageAbort: a controller id or NoAbort
    taskH,      \* whatsappTask ... imessageTask: a task id or NoTask
    runtime,    \* whatsappRuntime ... imessageRuntime
    tasks,      \* the connector tasks launched so far, by id
    aborted,    \* the controllers whose abort() has been called
    calls,      \* the start/stop calls of direct callers suspended at an await (a bag)
    sp,         \* startProviders: 0 not called, i the i-th start is in hand, 6 returned
    spCall,     \* the start call startProviders is awaiting
    driver,     \* who drives the manager in this behaviour
    heapRec,    \* the status record objects on the heap, by reference
    heapDisc,   \* the lastDisconnect objects on the heap, by reference
    liveRec,    \* the record each <kind>Runtime variable refers to
    snapshots,  \* the snapshots getRuntimeSnapshot() has returned
    hooksConfig,        \* opts.hooksConfig of createHooksRequestHandler
    canvasHost,         \* opts.canvasHost of createGatewayHttpServer is not null
    controlUiEnabled,   \* opts.controlUiEnabled
    req,        \* the request the listener was last called with, and how far it got
    served,     \* the requests the listener has been called with
    wakeInput,  \* the argument normalizeVoiceWakeTriggers is called with
    wakeOutput, \* what it returned; the empty list before the call
    errInput,   \* the argument formatError is called with
    errOutput,  \* what it returned
    stopReturned    \* per kind: a stop has returned and no start has been called since

\* the provider manager's state
mgrVars == <<abortCtl, taskH, runtime, tasks, aborted, calls, sp, spCall, driver>>

\* the objects behind the status records and the snapshots
snapVars == <<heapRec, heapDisc, liveRec, snapshots>>

\* the HTTP listener and the requests it serves
httpVars == <<hooksConfig, canvasHost, controlUiEnabled, req, served>>

\* the state outside the provider manager's control flow
\* the calls of the utility functions
utilVars == <<wakeInput, wakeOutput, errInput, errOutput>>

\* what is remembered of the calls made
histVars == <<stopReturned>>

elsewhere == <<snapVars, httpVars, utilVars, histVars>>

vars == <<mgrVars, snapVars, httpVars, utilVars, histVars>>

\* the latest time a status record holds
LatestStamp ==
    LET Max(a, b) == IF a >= b THEN a ELSE b
        Of(k) == Max(runtime[k].lastStartAt, runtime[k].lastStopAt)
    IN  Max(Max(Of("telegram"), Of("discord")), Max(Of("signal"), Of("imessage")))

\* the values Date.now() can return: the clock does not run backwards
Times == {t \in 1..MaxClock : t >= LatestStamp}

\* no call: startProviders is not awaiting a start
Idle == [pc |-> "idle", kind |-> "none", cfg |-> NoCfg, awaiting |-> NoTask]

\* a start suspended at await webAuthExists() or await probe...(...)
StartAwait(k, cfg) == [pc |-> "startAwait", kind |-> k, cfg |-> cfg, awaiting |-> NoTask]

\* a stop suspended at await <kind>Task
StopAwait(k, t) == [pc |-> "stopAwait", kind |-> k, cfg |-> NoCfg, awaiting |-> t]

----------------------------------------------------------------------------
(* The objects behind the records.  A <kind>Runtime variable refers to a
   record object; every update of the manager builds a new object with
   { ...old, changes } and makes the variable refer to it; the fields hold
   primitives, except lastDisconnect of the web record, which refers to an
   object the connector reports (or is null). *)

\* the kinds whose records are followed on the heap: the web record, and one
\* record of the kinds whose fields are all primitives
SnapKinds == {"whatsapp", "telegram"}

\* null, as a reference
NullRef == 0

InitHeap ==
    /\ heapRec = <<[running |-> FALSE, lastDisconnect |-> NullRef],
                   [running |-> FALSE, lastDisconnect |-> NullRef]>>
    /\ heapDisc = <<>>
    /\ liveRec = [k \in SnapKinds |-> IF k = "whatsapp" THEN 1 ELSE 2]
    /\ snapshots = <<>>

\* createProviderManager(...) has returned
InitManager ==
    /\ abortCtl = [k \in Kinds |-> NoAbort]
    /\ taskH = [k \in Kinds |-> NoTask]
    /\ runtime = [k \in Kinds |-> InitRuntime(k)]
    /\ tasks = <<>>
    /\ aborted = {}
    /\ calls = EmptyBag
    /\ sp = 0
    /\ spCall = Idle
    /\ driver \in Kinds \cup {"all"}

\* no HTTP listener has been created
NoListener ==
    /\ hooksConfig = HooksOff
    /\ canvasHost = FALSE
    /\ controlUiEnabled = FALSE
    /\ req = NoReq
    /\ served = 0

\* no utility function has been called
NoUtilCall ==
    /\ wakeInput = [isArray |-> FALSE, items |-> <<>>]
    /\ wakeOutput = <<>>
    /\ errInput = NoErr
    /\ errOutput = NotCalled

\* no stop has returned
NoHistory == stopReturned = [k \in Kinds |-> FALSE]

Init ==
    /\ InitManager
    /\ InitHeap
    /\ NoListener
    /\ NoUtilCall
    /\ NoHistory

TaskIds == 1..Len(tasks)

\* the suspended calls: those of the direct callers and that of startProviders
InFlight == BagToSet(calls) \cup ({spCall} \ {Idle})

getRuntimeSnapshot == [k \in Kinds |-> runtime[k]]

\* a call of caller who ("direct" or "sp") suspends at record r
Suspend(who, r) ==
    IF who = "sp"
    THEN spCall' = r /\ UNCHANGED calls
    ELSE calls' = calls (+) SetToBag({r}) /\ UNCHANGED spCall

\* a call of caller who returns in the segment it was called in
ReturnAtOnce(who) ==
    IF who = "sp"
    THEN spCall' = Idle /\ UNCHANGED calls
    ELSE UNCHANGED <<calls, spCall>>

\* the suspended call r resumes and returns
ResumeAndReturn(r) ==
    IF r = spCall
    THEN spCall' = Idle /\ UNCHANGED calls
    ELSE calls' = calls (-) SetToBag({r}) /\ UNCHANGED spCall

----------------------------------------------------------------------------
(* start: the segment from the call to the first await or to the return. *)

\* abort = new AbortController(); runtime = {... running: true ...};
\* task = monitor(...).catch(...).finally(...); <kind>Task = task
Launch(k, cfg, now) ==
    LET id == Len(tasks) + 1
    IN  /\ abortCtl' = [abortCtl EXCEPT ![k] = id]
        /\ runtime' = [runtime EXCEPT ![k] = RunningStatus(k, runtime[k], cfg, now)]
        /\ tasks' = Append(tasks, [kind |-> k, token |-> id, st |-> "running", err |-> NoErr])
        /\ taskH' = [taskH EXCEPT ![k] = id]

\* how the first segment of start(k) ends
StartOutcome(k, cfg) ==
    IF taskH[k] # NoTask THEN "noop"
    ELSE IF SkipReason(k, cfg) # Null THEN "skipped"
    ELSE IF HasAwait(k) THEN "await"
    ELSE "launched"

StartBody(who, k, cfg, now) ==
    LET out == StartOutcome(k, cfg)
    IN  /\ UNCHANGED <<aborted, driver>>
        /\ IF out = "noop"
           THEN /\ ReturnAtOnce(who)
                /\ UNCHANGED <<abortCtl, taskH, runtime, tasks>>
           ELSE IF out = "skipped"
           THEN /\ UNCHANGED <<abortCtl, taskH, tasks>>
                /\ ReturnAtOnce(who)
                /\ runtime' = [runtime EXCEPT ![k] = SkipStatus(k, runtime[k], SkipReason(k, cfg))]
           ELSE IF out = "await"
           THEN /\ Suspend(who, StartAwait(k, cfg))
                /\ UNCHANGED <<abortCtl, taskH, runtime, tasks>>
           ELSE /\ Launch(k, cfg, now)
                /\ ReturnAtOnce(who)

startWhatsAppProvider(who, cfg, now) == StartBody(who, "whatsapp", cfg, now)
startTelegramProvider(who, cfg, now) == StartBody(who, "telegram", cfg, now)
startDiscordProvider(who, cfg, now) == StartBody(who, "discord", cfg, now)
startSignalProvider(who, cfg, now) == StartBody(who, "signal", cfg, now)
startIMessageProvider(who, cfg, now) == StartBody(who, "imessage", cfg, now)

StartOf(who, k, cfg, now) ==
    IF k = "whatsapp" THEN startWhatsAppProvider(who, cfg, now)
    ELSE IF k = "telegram" THEN startTelegramProvider(who, cfg, now)
    ELSE IF k = "discord" THEN startDiscordProvider(who, cfg, now)
    ELSE IF k = "signal" THEN startSignalProvider(who, cfg, now)
    ELSE startIMessageProvider(who, cfg, now)

\* the outcomes of the awaited call: webAuthExists() says whether a session
\* is linked; the bot probe only yields a label for the log
AwaitResults(k) == IF k = "whatsapp" THEN BOOLEAN ELSE {TRUE}

\* start, resumed after its await
StartResume(r, linked, now) ==
    LET k == r.kind
    IN  /\ r \in InFlight
        /\ r.pc = "startAwait"
        /\ linked \in AwaitResults(k)
        /\ UNCHANGED <<aborted, driver, sp>>
        /\ IF k = "whatsapp" /\ ~linked
           THEN /\ runtime' = [runtime EXCEPT ![k] = SkipStatus(k, runtime[k], "not linked")]
                /\ ResumeAndReturn(r)
                /\ UNCHANGED <<abortCtl, taskH, tasks>>
           ELSE /\ Launch(k, r.cfg, now)
                /\ ResumeAndReturn(r)

----------------------------------------------------------------------------
(* stop. *)

\* a stop without the early return
StopIsNoopNever(k) == FALSE

\* if (!abort && !task) return;
StopIsNoop(k) == abortCtl[k] = NoAbort /\ taskH[k] = NoTask

\* a stop that awaits the task without aborting its token
StopBodyNoAbort(k) ==
    /\ UNCHANGED <<abortCtl, taskH, runtime, tasks, driver, sp, aborted>>
    /\ IF StopIsNoop(k)
       THEN ReturnAtOnce("direct")
       ELSE Suspend("direct", StopAwait(k, taskH[k]))

\* the segment up to the return or to await task: abort?.abort()
StopBody(k) ==
    /\ UNCHANGED <<abortCtl, taskH, runtime, tasks, driver, sp>>
    /\ IF StopIsNoop(k)
       THEN /\ ReturnAtOnce("direct")
            /\ UNCHANGED aborted
       ELSE /\ aborted' = IF abortCtl[k] # NoAbort THEN aborted \cup {abortCtl[k]} ELSE aborted
            /\ Suspend("direct", StopAwait(k, taskH[k]))

stopWhatsAppProvider == StopBody("whatsapp")
stopTelegramProvider == StopBody("telegram")
stopDiscordProvider == StopBody("discord")
stopSignalProvider == StopBody("signal")
stopIMessageProvider == StopBody("imessage")

\* a stop that does not await the task
SettledAtOnce(t) == TRUE

\* the awaited promise has settled (await null resumes at once)
Settled(t) == t = NoTask \/ tasks[t].st = "settled"

\* stop, resumed after await task: ... catch { /* ignore */ }; clear the handle
StopResume(r, now) ==
    LET k == r.kind
    IN  /\ r \in InFlight
        /\ r.pc = "stopAwait"
        /\ Settled(r.awaiting)
        /\ abortCtl' = [abortCtl EXCEPT ![k] = NoAbort]
        /\ taskH' = [taskH EXCEPT ![k] = NoTask]
        /\ runtime' = [runtime EXCEPT ![k] = StoppedStatus(k, runtime[k], now)]
        /\ ResumeAndReturn(r)
        /\ UNCHANGED <<tasks, aborted, driver, sp>>

----------------------------------------------------------------------------
(* The connector task: monitor(...).catch(...).finally(...). *)

\* the monitor promise is fulfilled
TaskFulfil(t) ==
    /\ tasks[t].st = "running"
    /\ tasks' = [tasks EXCEPT ![t].st = "fulfilled"]
    /\ UNCHANGED <<abortCtl, taskH, runtime, aborted, calls, sp, spCall, driver>>

\* the monitor promise is rejected with e
TaskReject(t, e) ==
    /\ tasks[t].st = "running"
    /\ tasks' = [tasks EXCEPT ![t].st = "rejected", ![t].err = e]
    /\ UNCHANGED <<abortCtl, taskH, runtime, aborted, calls, sp, spCall, driver>>

\* the .catch callback
TaskCatch(t) ==
    LET k == tasks[t].kind
    IN  /\ tasks[t].st = "rejected"
        /\ runtime' = [runtime EXCEPT ![k] = CaughtStatus(k, runtime[k], tasks[t].err)]
        /\ tasks' = [tasks EXCEPT ![t].st = "caught"]
        /\ UNCHANGED <<abortCtl, taskH, aborted, calls, sp, spCall, driver>>

\* the .finally callback; the settled task drops its error, which nothing
\* refers to any more
TaskFinally(t, now) ==
    LET k == tasks[t].kind
    IN  /\ tasks[t].st \in {"fulfilled", "caught"}
        /\ abortCtl' = [abortCtl EXCEPT ![k] = NoAbort]
        /\ taskH' = [taskH EXCEPT ![k] = NoTask]
        /\ runtime' = [runtime EXCEPT ![k] = StoppedStatus(k, runtime[k], now)]
        /\ tasks' = [tasks EXCEPT ![t].st = "settled", ![t].err = NoErr]
        /\ UNCHANGED <<aborted, calls, sp, spCall, driver>>

\* the web connector pushes a status record through statusSink
updateWhatsAppStatus(t, next) ==
    /\ tasks[t].kind = "whatsapp"
    /\ tasks[t].st = "running"
    /\ runtime' = [runtime EXCEPT !["whatsapp"] = next]
    /\ UNCHANGED <<abortCtl, taskH, tasks, aborted, calls, sp, spCall, driver>>

markWhatsAppLoggedOut(cleared) ==
    /\ runtime' = [runtime EXCEPT !["whatsapp"] = LoggedOutStatus(runtime["whatsapp"], cleared)]
    /\ UNCHANGED <<abortCtl, taskH, tasks, aborted, calls, sp, spCall, driver>>

----------------------------------------------------------------------------
(* startProviders: five awaited starts, one after the other. *)

\* the call, up to the first start's first await or return
startProviders(cfg, now) ==
    /\ sp = 0
    /\ spCall = Idle
    /\ sp' = 1
    /\ StartOf("sp", ProviderOrder[1], cfg, now)

\* resumed after await start...(): the next start is called
StartProvidersNext(cfg, now) ==
    /\ sp \in 1..(Len(ProviderOrder) - 1)
    /\ spCall = Idle
    /\ sp' = sp + 1
    /\ StartOf("sp", ProviderOrder[sp + 1], cfg, now)

\* resumed after the last await: startProviders returns
StartProvidersReturn ==
    /\ sp = Len(ProviderOrder)
    /\ spCall = Idle
    /\ sp' = Len(ProviderOrder) + 1
    /\ UNCHANGED <<abortCtl, taskH, runtime, tasks, aborted, calls, spCall, driver>>

----------------------------------------------------------------------------
(* The callers. *)

\* this behaviour drives kind k, and one more direct call may be suspended
Drives(k) == driver = k /\ BagCardinality(calls) < MaxCalls

\* the starts suspended at their await
PendingStarts ==
    LET waiting == {r \in BagToSet(calls) : r.pc = "startAwait"}
    IN  BagCardinality([r \in waiting |-> calls[r]])
          + (IF spCall.pc = "startAwait" THEN 1 ELSE 0)

\* the configurations and the callers are such that at most MaxTasks tasks
\* are launched in one behaviour
CanStart(k, cfg) ==
    StartOutcome(k, cfg) \in {"await", "launched"} =>
        Len(tasks) + PendingStarts < MaxTasks

\* the steps of the manager's methods called one by one, of the suspended
\* calls and of the connector tasks
DirectNext ==
    \/ \E cfg \in Configs("whatsapp"), now \in Times :
          Drives("whatsapp") /\ CanStart("whatsapp", cfg) /\ startWhatsAppProvider("direct", cfg, now) /\ UNCHANGED <<sp, elsewhere>>
    \/ \E cfg \in Configs("telegram"), now \in Times :
          Drives("telegram") /\ CanStart("telegram", cfg) /\ startTelegramProvider("direct", cfg, now) /\ UNCHANGED <<sp, elsewhere>>
    \/ \E cfg \in Configs("discord"), now \in Times :
          Drives("discord") /\ CanStart("discord", cfg) /\ startDiscordProvider("direct", cfg, now) /\ UNCHANGED <<sp, elsewhere>>
    \/ \E cfg \in Configs("signal"), now \in Times :
          Drives("signal") /\ CanStart("signal", cfg) /\ startSignalProvider("direct", cfg, now) /\ UNCHANGED <<sp, elsewhere>>
    \/ \E cfg \in Configs("imessage"), now \in Times :
          Drives("imessage") /\ CanStart("imessage", cfg) /\ startIMessageProvider("direct", cfg, now) /\ UNCHANGED <<sp, elsewhere>>
    \/ \E r \in InFlight, linked \in BOOLEAN, now \in Times : StartResume(r, linked, now) /\ UNCHANGED elsewhere
    \/ Drives("whatsapp") /\ stopWhatsAppProvider /\ UNCHANGED elsewhere
    \/ Drives("telegram") /\ stopTelegramProvider /\ UNCHANGED elsewhere
    \/ Drives("discord") /\ stopDiscordProvider /\ UNCHANGED elsewhere
    \/ Drives("signal") /\ stopSignalProvider /\ UNCHANGED elsewhere
    \/ Drives("imessage") /\ stopIMessageProvider /\ UNCHANGED elsewhere
    \/ \E r \in InFlight, now \in Times : StopResume(r, now) /\ UNCHANGED elsewhere
    \/ \E t \in TaskIds : TaskFulfil(t) /\ UNCHANGED elsewhere
    \/ \E t \in TaskIds, e \in TaskErrors : TaskReject(t, e) /\ UNCHANGED elsewhere
    \/ \E t \in TaskIds : TaskCatch(t) /\ UNCHANGED elsewhere
    \/ \E t \in TaskIds, now \in Times : TaskFinally(t, now) /\ UNCHANGED elsewhere
    \/ \E t \in TaskIds, next \in SinkStatuses : driver = "whatsapp" /\ updateWhatsAppStatus(t, next) /\ UNCHANGED elsewhere
    \/ \E cleared \in BOOLEAN : driver = "whatsapp" /\ markWhatsAppLoggedOut(cleared) /\ UNCHANGED elsewhere

\* the steps of startProviders
StartAllNext ==
    \/ \E cfg \in Configs(ProviderOrder[1]), now \in Times :
          driver = "all" /\ CanStart(ProviderOrder[1], cfg) /\ startProviders(cfg, now) /\ UNCHANGED elsewhere
    \/ \E cfg \in UNION {Configs(k) : k \in Kinds}, now \in Times :
          /\ sp \in 1..(Len(ProviderOrder) - 1)
          /\ cfg \in Configs(ProviderOrder[sp + 1])
          /\ CanStart(ProviderOrder[sp + 1], cfg)
          /\ StartProvidersNext(cfg, now)
          /\ UNCHANGED elsewhere
    \/ StartProvidersReturn /\ UNCHANGED elsewhere

Next == DirectNext \/ StartAllNext

Spec == Init /\ [][Next]_vars

----------------------------------------------------------------------------
(* Scheduling.  Every promise callback and every resumed continuation that is
   ready is run by the event loop; a connector task whose token has been
   aborted settles (the connector's side of cooperative cancellation). *)

\* the monitor of task t, its token aborted, settles one way or the other
AbortedTaskSettles(t) ==
    /\ t \in TaskIds
    /\ tasks[t].token \in aborted
    /\ (TaskFulfil(t) \/ \E e \in TaskErrors : TaskReject(t, e))
    /\ UNCHANGED elsewhere

\* the callbacks chained on task t run
TaskCallbacksRun(t) ==
    /\ t \in TaskIds
    /\ (TaskCatch(t) \/ \E now \in Times : TaskFinally(t, now))
    /\ UNCHANGED elsewhere

\* the stops suspended on task t
StopsOn(t) == {r \in BagToSet(calls) : r.pc = "stopAwait" /\ r.awaiting = t}

\* a stop suspended on task t resumes
StopResumes(t) ==
    /\ \E r \in StopsOn(t), now \in Times : StopResume(r, now)
    /\ UNCHANGED elsewhere

\* what is ready about task t is run: at any time at most one of the three
\* is, as they follow one another
TaskProgress(t) == AbortedTaskSettles(t) \/ TaskCallbacksRun(t) \/ StopResumes(t)

\* the manager as its start and stop methods are called one by one
FairInit == Init /\ driver \in Kinds

\* the manager driven through its start and stop methods, with the scheduling
FairSpec ==
    /\ FairInit
    /\ [][DirectNext]_vars
    /\ WF_vars(\E t \in 1..MaxTasks : TaskProgress(t))

----------------------------------------------------------------------------
(* The manager's methods called one by one, with the returns of stop and the
   calls of start remembered. *)

\* what the steps of the manager leave alone, the remembered calls apart
restVars == <<snapVars, httpVars, utilVars>>

\* start(k) is called
StartNoted(k) == stopReturned' = [stopReturned EXCEPT ![k] = FALSE]

\* stop(k) returns
StopNoted(k) == stopReturned' = [stopReturned EXCEPT ![k] = TRUE]

\* stop(k) is called: it returns in this step if it finds nothing to stop
StopCalled(k) ==
    /\ Drives(k)
    /\ StopBody(k)
    /\ IF StopIsNoop(k) THEN StopNoted(k) ELSE UNCHANGED stopReturned
    /\ UNCHANGED restVars

HistNext ==
    \/ \E cfg \in Configs("whatsapp"), now \in Times :
          /\ Drives("whatsapp") /\ CanStart("whatsapp", cfg)
          /\ startWhatsAppProvider("direct", cfg, now)
          /\ StartNoted("whatsapp") /\ UNCHANGED <<sp, restVars>>
    \/ \E cfg \in Configs("telegram"), now \in Times :
          /\ Drives("telegram") /\ CanStart("telegram", cfg)
          /\ startTelegramProvider("direct", cfg, now)
          /\ StartNoted("telegram") /\ UNCHANGED <<sp, restVars>>
    \/ \E cfg \in Configs("discord"), now \in Times :
          /\ Drives("discord") /\ CanStart("discord", cfg)
          /\ startDiscordProvider("direct", cfg, now)
          /\ StartNoted("discord") /\ UNCHANGED <<sp, restVars>>
    \/ \E cfg \in Configs("signal"), now \in Times :
          /\ Drives("signal") /\ CanStart("signal", cfg)
          /\ startSignalProvider("direct", cfg, now)
          /\ StartNoted("signal") /\ UNCHANGED <<sp, restVars>>
    \/ \E cfg \in Configs("imessage"), now \in Times :
          /\ Drives("imessage") /\ CanStart("imessage", cfg)
          /\ startIMessageProvider("direct", cfg, now)
          /\ StartNoted("imessage") /\ UNCHANGED <<sp, restVars>>
    \/ \E r \in InFlight, linked \in BOOLEAN, now \in Times :
          StartResume(r, linked, now) /\ UNCHANGED <<restVars, histVars>>
    \/ \E k \in Kinds : StopCalled(k)
    \/ \E r \in InFlight, now \in Times :
          StopResume(r, now) /\ StopNoted(r.kind) /\ UNCHANGED restVars
    \/ \E t \in TaskIds : TaskFulfil(t) /\ UNCHANGED <<restVars, histVars>>
    \/ \E t \in TaskIds, e \in TaskErrors : TaskReject(t, e) /\ UNCHANGED <<restVars, histVars>>
    \/ \E t \in TaskIds : TaskCatch(t) /\ UNCHANGED <<restVars, histVars>>
    \/ \E t \in TaskIds, now \in Times : TaskFinally(t, now) /\ UNCHANGED <<restVars, histVars>>
    \/ \E t \in TaskIds, next \in SinkStatuses :
          driver = "whatsapp" /\ updateWhatsAppStatus(t, next) /\ UNCHANGED <<restVars, histVars>>
    \/ \E cleared \in BOOLEAN :
          driver = "whatsapp" /\ markWhatsAppLoggedOut(cleared) /\ UNCHANGED <<restVars, histVars>>

HistSpec == FairInit /\ [][HistNext]_vars

----------------------------------------------------------------------------
(* Snapshots and the objects they share with the manager. *)

\* the status codes a lastDisconnect object carries
DiscStatuses == {401, 515}

\* <kind>Runtime = { ...<kind>Runtime, running: rn }: a new record object with
\* the fields of the old one, lastDisconnect by reference
SpreadWrite(k, rn) ==
    /\ Len(heapRec) < MaxRecs
    /\ heapRec' = Append(heapRec, [heapRec[liveRec[k]] EXCEPT !.running = rn])
    /\ liveRec' = [liveRec EXCEPT ![k] = Len(heapRec) + 1]
    /\ UNCHANGED <<heapDisc, snapshots>>

\* whatsappRuntime = next: the variable refers to the object the connector
\* pushed, whose lastDisconnect is null or an object of the connector
SinkStore(rn, withDisc, st) ==
    /\ Len(heapRec) < MaxRecs
    /\ withDisc => Len(heapDisc) < MaxDiscs
    /\ heapDisc' = IF withDisc THEN Append(heapDisc, st) ELSE heapDisc
    /\ heapRec' = Append(heapRec,
                     [running |-> rn,
                      lastDisconnect |-> IF withDisc THEN Len(heapDisc) + 1 ELSE NullRef])
    /\ liveRec' = [liveRec EXCEPT !["whatsapp"] = Len(heapRec) + 1]
    /\ UNCHANGED snapshots

\* the records of a snapshot taken when the heap holds base records:
\* { ...<kind>Runtime } is a new object per kind
SnapshotRecs(base) ==
    [k \in SnapKinds |-> IF k = "whatsapp" THEN base + 1 ELSE base + 2]

\* getRuntimeSnapshot(): ({ whatsapp: { ...whatsappRuntime }, ... }); the
\* spread copies each field, an object-valued field by reference
TakeSnapshot ==
    /\ Len(snapshots) < MaxSnaps
    /\ Len(heapRec) + 2 <= MaxRecs
    /\ heapRec' = heapRec \o <<heapRec[liveRec["whatsapp"]], heapRec[liveRec["telegram"]]>>
    /\ snapshots' = Append(snapshots, SnapshotRecs(Len(heapRec)))
    /\ UNCHANGED <<heapDisc, liveRec>>

\* a caller assigns a field of a record of snapshot s
CallerSetsField(s, k, rn) ==
    /\ s \in 1..Len(snapshots)
    /\ heapRec[snapshots[s][k]].running # rn
    /\ heapRec' = [heapRec EXCEPT ![snapshots[s][k]].running = rn]
    /\ UNCHANGED <<heapDisc, liveRec, snapshots>>

\* a caller assigns a field of the lastDisconnect object of snapshot s
CallerSetsNested(s, st) ==
    /\ s \in 1..Len(snapshots)
    /\ heapRec[snapshots[s]["whatsapp"]].lastDisconnect # NullRef
    /\ heapDisc[heapRec[snapshots[s]["whatsapp"]].lastDisconnect] # st
    /\ heapDisc' = [heapDisc EXCEPT ![heapRec[snapshots[s]["whatsapp"]].lastDisconnect] = st]
    /\ UNCHANGED <<heapRec, liveRec, snapshots>>

SnapInit == Init /\ driver = "all"

SnapNext ==
    \/ \E k \in SnapKinds, rn \in BOOLEAN : SpreadWrite(k, rn) /\ UNCHANGED <<mgrVars, httpVars, utilVars, histVars>>
    \/ \E rn \in BOOLEAN, withDisc \in BOOLEAN, st \in DiscStatuses :
          SinkStore(rn, withDisc, st) /\ UNCHANGED <<mgrVars, httpVars, utilVars, histVars>>
    \/ TakeSnapshot /\ UNCHANGED <<mgrVars, httpVars, utilVars, histVars>>
    \/ \E s \in 1..Len(snapshots), k \in SnapKinds, rn \in BOOLEAN :
          CallerSetsField(s, k, rn) /\ UNCHANGED <<mgrVars, httpVars, utilVars, histVars>>
    \/ \E s \in 1..Len(snapshots), st \in DiscStatuses :
          CallerSetsNested(s, st) /\ UNCHANGED <<mgrVars, httpVars, utilVars, histVars>>

SnapSpec == SnapInit /\ [][SnapNext]_vars

----------------------------------------------------------------------------
(* The HTTP listener (createGatewayHttpServer) and the hook handler
   (createHooksRequestHandler).  The closures hold only what they were
   created with, so requests do not affect one another; the listener is
   followed one request at a time.  Every action is one synchronous segment:
   the listener callback up to the first await, or the continuation after an
   await. *)

\* the outcomes of a handler of the chain the hook handler is composed with
Outcomes == {"handled", "declined", "threw"}

\* fn is called for the request
Called(r, fn) == [r EXCEPT !.log = Append(@, fn)]

\* a dispatch callback is called with argument call
Dispatched(r, call) ==
    [r EXCEPT !.log = Append(@, IF call.hook = "wake" THEN "dispatchWakeHook" ELSE "dispatchAgentHook"),
              !.dispatched = Append(@, call)]

\* the hook handler has written res and returns true
Answered(r, res) == [r EXCEPT !.res = res, !.handled = TRUE, !.pc = "hooks"]

\* handler who has returned false
Declines(r, who) == [r EXCEPT !.declined = Append(@, who)]

DeclinedWith404(r) ==
    [Declines(r, "handleHooksRequest") EXCEPT !.res = TextRes(404, "Not Found"),
                                                !.handled = FALSE, !.pc = "hooks"]

\* the hook handler returns false
Declined(r) == [Declines(r, "handleHooksRequest") EXCEPT !.handled = FALSE, !.pc = "hooks"]

\* who throws or rejects outside a try block: the promise of the chain rejects
Rejected(r, who) == [r EXCEPT !.threw = who, !.pc = "rejected"]

\* the chain returns, the response being res
Done(r, res) == [r EXCEPT !.res = res, !.pc = "done"]

\* the response a handler of the chain writes when it handles the request
HandlerRes(who) == [NoRes EXCEPT !.status = 200, !.text = who]

MethodNotAllowedNoAllow == TextRes(405, "Method Not Allowed")

\* res.statusCode = 405; Allow: POST; res.end("Method Not Allowed")
MethodNotAllowed == [TextRes(405, "Method Not Allowed") EXCEPT !.allow = "POST"]

\* the hook handler from its call to its first await or return
HooksEntry(r) ==
    IF ~hooksConfig.present THEN Declined(r)
    ELSE IF ~UnderBasePath(r.path, hooksConfig.basePath) THEN Declined(r)
    ELSE LET token == extractHookToken(r.header, r.query) IN
         IF token = NoToken \/ token # hooksConfig.token
         THEN Answered(r, TextRes(401, "Unauthorized"))
         ELSE IF r.method # "POST" THEN Answered(r, MethodNotAllowed)
         ELSE IF SubPath(r.path, hooksConfig.basePath) = <<>>
         THEN Answered(r, TextRes(404, "Not Found"))
         ELSE [Called(r, "readJsonBody") EXCEPT !.pc = "readJsonBody"]

\* the listener callback: a WebSocket upgrade is left alone, any other request
\* enters the chain, which calls the hook handler and awaits it
Receive(upgrade, method, path, header, query) ==
    /\ req.pc \in {"none", "done", "ignored"}
    /\ served < MaxReqs
    /\ served' = served + 1
    /\ LET r == [NoReq EXCEPT !.upgrade = upgrade, !.method = method, !.path = path,
                              !.header = header, !.query = query]
       IN  req' = IF upgrade THEN [r EXCEPT !.pc = "ignored"]
                  ELSE HooksEntry(Called(r, "handleHooksRequest"))
    /\ UNCHANGED <<hooksConfig, canvasHost, controlUiEnabled>>

BodyStatusAlways400(error) == 400

\* body.error === "payload too large" ? 413 : 400
BodyStatus(error) == IF error = "payload too large" THEN 413 ELSE 400

WakeRouteTwice(r, normalized, returns) ==
    LET n == Called(r, "normalizeWakePayload") IN
    IF ~normalized.ok THEN Answered(n, sendJson(400, ErrorBody(normalized.error)))
    ELSE LET d == Dispatched(Dispatched(n, WakeCall(normalized.text, normalized.mode)),
                             WakeCall(normalized.text, normalized.mode)) IN
         IF returns
         THEN Answered(d, sendJson(200, [NoJson EXCEPT !.ok = "true", !.mode = normalized.mode]))
         ELSE Rejected(d, "dispatchWakeHook")

\* subPath === "wake"
WakeRoute(r, normalized, returns) ==
    LET n == Called(r, "normalizeWakePayload") IN
    IF ~normalized.ok THEN Answered(n, sendJson(400, ErrorBody(normalized.error)))
    ELSE LET d == Dispatched(n, WakeCall(normalized.text, normalized.mode)) IN
         IF returns
         THEN Answered(d, sendJson(200, [NoJson EXCEPT !.ok = "true", !.mode = normalized.mode]))
         ELSE Rejected(d, "dispatchWakeHook")

\* subPath === "agent"
AgentRoute(r, normalized, runId, returns) ==
    LET n == Called(r, "normalizeAgentPayload") IN
    IF ~normalized.ok THEN Answered(n, sendJson(400, ErrorBody(normalized.error)))
    ELSE LET d == Dispatched(n, normalized.value) IN
         IF returns
         THEN Answered(d, sendJson(202, [NoJson EXCEPT !.ok = "true", !.runId = runId]))
         ELSE Rejected(d, "dispatchAgentHook")

\* the hook handler after await readJsonBody(...), to its next await or return
BodyRead(len, json, wake, agent, runId, returns) ==
    /\ req.pc = "readJsonBody"
    /\ LET r == [req EXCEPT !.bodyLen = len, !.bodyJson = json]
           body == readJsonBody(len, json, hooksConfig.maxBodyBytes)
           subPath == SubPath(req.path, hooksConfig.basePath)
       IN  req' = IF ~body.ok
                  THEN Answered(r, sendJson(BodyStatus(body.error), ErrorBody(body.error)))
                  ELSE IF subPath = <<"wake">> THEN WakeRoute(r, wake, returns)
                  ELSE IF subPath = <<"agent">> THEN AgentRoute(r, agent, runId, returns)
                  ELSE IF hooksConfig.mappings > 0
                  THEN [Called(r, "applyHookMappings") EXCEPT !.pc = "applyHookMappings"]
                  ELSE Answered(r, TextRes(404, "Not Found"))
    /\ UNCHANGED <<hooksConfig, canvasHost, controlUiEnabled, served>>

\* the argument dispatchAgentHook gets for the mapped action a
MappedAgentCall(a) ==
    AgentCall(a.message, OrElse(a.name, "Hook"), a.mode, OrElse(a.sessionKey, ""),
              a.deliver = "true", OrElse(a.channel, "last"))

MappingFailedRethrows(r, who) == Rejected(r, who)

\* catch (err) of the mapping block
MappingFailed(r, who) ==
    Answered([r EXCEPT !.threw = who, !.caught = "mapping"],
             sendJson(500, ErrorBody("hook mapping failed")))

\* the hook handler after await applyHookMappings(...): the try block
Mapped(rejects, mapped, runId, returns) ==
    /\ req.pc = "applyHookMappings"
    /\ req' = IF rejects THEN MappingFailed(req, "applyHookMappings")
              ELSE IF ~mapped.matched THEN Answered(req, TextRes(404, "Not Found"))
              ELSE IF ~mapped.ok THEN Answered(req, sendJson(400, ErrorBody(mapped.error)))
              ELSE IF mapped.action.kind = "null" THEN Answered(req, [NoRes EXCEPT !.status = 204])
              ELSE IF mapped.action.kind = "wake"
              THEN LET d == Dispatched(req, WakeCall(mapped.action.text, mapped.action.mode)) IN
                   IF returns
                   THEN Answered(d, sendJson(200, [NoJson EXCEPT !.ok = "true", !.mode = mapped.action.mode]))
                   ELSE MappingFailed(d, "dispatchWakeHook")
              ELSE LET d == Dispatched(req, MappedAgentCall(mapped.action)) IN
                   IF returns
                   THEN Answered(d, sendJson(202, [NoJson EXCEPT !.ok = "true", !.runId = runId]))
                   ELSE MappingFailed(d, "dispatchAgentHook")
    /\ UNCHANGED <<hooksConfig, canvasHost, controlUiEnabled, served>>

\* if (controlUiEnabled) { if (handleControlUiHttpRequest(...)) return }; 404
ControlUi(r, outcome) ==
    IF controlUiEnabled
    THEN LET c == Called(r, "handleControlUiHttpRequest") IN
         IF outcome = "threw" THEN Rejected(c, "handleControlUiHttpRequest")
         ELSE IF outcome = "handled" THEN Done(c, HandlerRes("handleControlUiHttpRequest"))
         ELSE Done(Declines(c, "handleControlUiHttpRequest"), TextRes(404, "Not Found"))
    ELSE Done(r, TextRes(404, "Not Found"))

AfterHooksUiFirst(outcome) ==
    /\ req.pc = "hooks"
    /\ req' = IF req.handled THEN [req EXCEPT !.pc = "done"]
              ELSE IF controlUiEnabled /\ outcome # "declined" THEN ControlUi(req, outcome)
              ELSE IF canvasHost
              THEN [Called(req, "handleA2uiHttpRequest") EXCEPT !.pc = "a2ui"]
              ELSE ControlUi(req, outcome)
    /\ UNCHANGED <<hooksConfig, canvasHost, controlUiEnabled, served>>

\* the chain after await handleHooksRequest(req, res)
AfterHooks(outcome) ==
    /\ req.pc = "hooks"
    /\ req' = IF req.handled THEN [req EXCEPT !.pc = "done"]
              ELSE IF canvasHost
              THEN [Called(req, "handleA2uiHttpRequest") EXCEPT !.pc = "a2ui"]
              ELSE ControlUi(req, outcome)
    /\ UNCHANGED <<hooksConfig, canvasHost, controlUiEnabled, served>>

\* the chain after await handleA2uiHttpRequest(req, res)
AfterA2ui(outcome) ==
    /\ req.pc = "a2ui"
    /\ req' = IF outcome = "threw" THEN Rejected(req, "handleA2uiHttpRequest")
              ELSE IF outcome = "handled" THEN Done(req, HandlerRes("handleA2uiHttpRequest"))
              ELSE [Called(Declines(req, "handleA2uiHttpRequest"), "canvasHost.handleHttpRequest")
                      EXCEPT !.pc = "canvas"]
    /\ UNCHANGED <<hooksConfig, canvasHost, controlUiEnabled, served>>

\* the chain after await canvasHost.handleHttpRequest(req, res)
AfterCanvas(outcome, ui) ==
    /\ req.pc = "canvas"
    /\ req' = IF outcome = "threw" THEN Rejected(req, "canvasHost.handleHttpRequest")
              ELSE IF outcome = "handled" THEN Done(req, HandlerRes("canvasHost.handleHttpRequest"))
              ELSE ControlUi(Declines(req, "canvasHost.handleHttpRequest"), ui)
    /\ UNCHANGED <<hooksConfig, canvasHost, controlUiEnabled, served>>

\* .catch((err) => { res.statusCode = 500; ...; res.end(String(err)) })
OuterCatch ==
    /\ req.pc = "rejected"
    /\ req' = Done([req EXCEPT !.caught = "outer"], TextRes(500, req.threw))
    /\ UNCHANGED <<hooksConfig, canvasHost, controlUiEnabled, served>>

HttpInit ==
    /\ InitManager
    /\ driver = "all"
    /\ InitHeap
    /\ hooksConfig \in HooksConfigs
    /\ canvasHost \in BOOLEAN
    /\ controlUiEnabled \in BOOLEAN
    /\ req = NoReq
    /\ served = 0
    /\ NoUtilCall
    /\ NoHistory

HttpNext ==
    \/ \E upgrade \in BOOLEAN, method \in Methods, path \in Paths, header \in Tokens, query \in Tokens :
          Receive(upgrade, method, path, header, query) /\ UNCHANGED <<mgrVars, snapVars, utilVars, histVars>>
    \/ \E len \in BodyLens, json \in {"valid", "invalid"}, wake \in WakeResults,
          agent \in AgentResults, runId \in RunIds, returns \in BOOLEAN :
          BodyRead(len, json, wake, agent, runId, returns) /\ UNCHANGED <<mgrVars, snapVars, utilVars, histVars>>
    \/ \E rejects \in BOOLEAN, mapped \in MappedResults, runId \in RunIds, returns \in BOOLEAN :
          Mapped(rejects, mapped, runId, returns) /\ UNCHANGED <<mgrVars, snapVars, utilVars, histVars>>
    \/ \E outcome \in Outcomes : AfterHooks(outcome) /\ UNCHANGED <<mgrVars, snapVars, utilVars, histVars>>
    \/ \E outcome \in Outcomes : AfterA2ui(outcome) /\ UNCHANGED <<mgrVars, snapVars, utilVars, histVars>>
    \/ \E outcome \in Outcomes, ui \in Outcomes : AfterCanvas(outcome, ui) /\ UNCHANGED <<mgrVars, snapVars, utilVars, histVars>>
    \/ OuterCatch /\ UNCHANGED <<mgrVars, snapVars, utilVars, histVars>>

HttpSpec == HttpInit /\ [][HttpNext]_vars

----------------------------------------------------------------------------
(* normalizeVoiceWakeTriggers, called once with each input. *)

TriggerInit ==
    /\ InitManager
    /\ driver = "all"
    /\ InitHeap
    /\ NoListener
    /\ wakeInput \in TriggerInputs
    /\ wakeOutput = <<>>
    /\ errInput = NoErr
    /\ errOutput = NotCalled
    /\ NoHistory

\* wakeOutput = normalizeVoiceWakeTriggers(wakeInput)
CallNormalize ==
    /\ wakeOutput = <<>>
    /\ wakeOutput' = normalizeVoiceWakeTriggers(wakeInput)
    /\ UNCHANGED <<wakeInput, errInput, errOutput, mgrVars, snapVars, httpVars, histVars>>

TriggerNext == CallNormalize

TriggerSpec == TriggerInit /\ [][TriggerNext]_vars

----------------------------------------------------------------------------
(* formatError, called once with each input. *)

FormatInit ==
    /\ InitManager
    /\ driver = "all"
    /\ InitHeap
    /\ NoListener
    /\ wakeInput = [isArray |-> FALSE, items |-> <<>>]
    /\ wakeOutput = <<>>
    /\ errInput \in FormatInputs
    /\ errOutput = NotCalled
    /\ NoHistory

\* errOutput = formatError(errInput)
CallFormatError ==
    /\ errOutput = NotCalled
    /\ errOutput' = formatError(errInput)
    /\ UNCHANGED <<errInput, wakeInput, wakeOutput, mgrVars, snapVars, httpVars, histVars>>

FormatNext == CallFormatError

FormatSpec == FormatInit /\ [][FormatNext]_vars

----------------------------------------------------------------------------
(* Properties. *)

\* the connector tasks of kind k whose monitor is executing
ActiveTasks(k) == {t \in TaskIds : tasks[t].kind = k /\ tasks[t].st = "running"}

\* C1: for every connector kind and every interleaving of start, stop and
\* settlement steps, at most one connector task of the kind is active.
C1_AtMostOneActiveTask ==
    \A k \in Kinds : Cardinality(ActiveTasks(k)) <= 1

\* C2: stop(k) called while the task handle of k is set aborts the token of
\* that task and suspends on that task; it resumes only once that task has
\* settled, and when it returns the handle and the token of k are null and
\* running is false.
C2_StopAbortsWaitsAndClears ==
    [][/\ \A k \in Kinds :
             (StopBody(k) /\ taskH[k] # NoTask) =>
                 /\ tasks[taskH[k]].token = abortCtl[k]
                 /\ tasks[taskH[k]].token \in aborted'
                 /\ CopiesIn(StopAwait(k, taskH[k]), calls')
                      = CopiesIn(StopAwait(k, taskH[k]), calls) + 1
       /\ \A k \in Kinds, t \in TaskIds :
             CopiesIn(StopAwait(k, t), calls') < CopiesIn(StopAwait(k, t), calls) =>
                 /\ tasks[t].st = "settled"
                 /\ taskH'[k] = NoTask
                 /\ abortCtl'[k] = NoAbort
                 /\ ~getRuntimeSnapshot'[k].running]_vars

\* a stop has aborted the token of a task, waited for it and returned
C2_Witness ==
    \E t \in TaskIds :
        /\ tasks[t].st = "settled"
        /\ tasks[t].token \in aborted
        /\ \A r \in InFlight : ~(r.pc = "stopAwait" /\ r.awaiting = t)
        /\ taskH[tasks[t].kind] = NoTask
        /\ ~runtime[tasks[t].kind].running

\* C3: in every observable state, for every connector kind, running = true
\* implies that the task handle is set.
C3_RunningImpliesTask ==
    \A k \in Kinds : getRuntimeSnapshot[k].running => taskH[k] # NoTask

\* the step is a call of start(k): by a caller of the manager's method or by
\* startProviders, up to the first await of the start or to its return
StartCalled(k, cfg, now) ==
    \/ Drives(k) /\ StartOf("direct", k, cfg, now) /\ UNCHANGED sp
    \/ k = ProviderOrder[1] /\ startProviders(cfg, now)
    \/ /\ sp \in 1..(Len(ProviderOrder) - 1)
       /\ k = ProviderOrder[sp + 1]
       /\ StartProvidersNext(cfg, now)

\* the kinds whose start the step can be a call of: the kind a direct caller
\* drives, or the kind startProviders moves on to
StartCallable ==
    {k \in Kinds : Drives(k) /\ sp' = sp}
    \cup (IF sp < Len(ProviderOrder) /\ sp' = sp + 1 THEN {ProviderOrder[sp + 1]} ELSE {})

\* the start steps: a call segment of start(k) or the resumption of a start
IsStartStep(k) ==
    \/ \E who \in {"direct", "sp"}, cfg \in Configs(k), now \in Times :
          StartBody(who, k, cfg, now) /\ (who = "direct" => UNCHANGED sp)
    \/ \E r \in InFlight, linked \in BOOLEAN, now \in Times :
          r.kind = k /\ StartResume(r, linked, now)

\* the step launches a task of kind k that is the new handle, with a
\* controller no earlier task was given
LaunchesFresh(k) ==
    /\ Len(tasks') = Len(tasks) + 1
    /\ tasks'[Len(tasks')].kind = k
    /\ tasks'[Len(tasks')].st = "running"
    /\ taskH'[k] = Len(tasks')
    /\ abortCtl'[k] # NoAbort
    /\ abortCtl'[k] = tasks'[Len(tasks')].token
    /\ \A t \in TaskIds : tasks[t].token # abortCtl'[k]
    /\ abortCtl'[k] \notin aborted'
    /\ getRuntimeSnapshot'[k].running

\* C4: the step in which a task of k settles, fulfilled or rejected, leaves
\* running false and the handle and the token null and launches no task; a
\* task is launched only by a start step; and a start of k that finds no
\* handle and a valid configuration launches a fresh task with a fresh token.
C4_SettleBackToIdle ==
    [][/\ \A t \in TaskIds :
             (tasks[t].st # "settled" /\ tasks'[t].st = "settled") =>
                 /\ ~getRuntimeSnapshot'[tasks[t].kind].running
                 /\ taskH'[tasks[t].kind] = NoTask
                 /\ abortCtl'[tasks[t].kind] = NoAbort
                 /\ Len(tasks') = Len(tasks)
       /\ Len(tasks') # Len(tasks) => \E k \in Kinds : LaunchesFresh(k) /\ IsStartStep(k)
       /\ \A k \in StartCallable \cap {"signal", "imessage"} : taskH[k] = NoTask =>
             \A cfg \in Configs(k) : (~cfg.disabled /\ cfg.present /\ cfg.cred) =>
                \A now \in Times : StartCalled(k, cfg, now) => LaunchesFresh(k)
       /\ \A r \in InFlight, now \in Times :
             StartResume(r, TRUE, now) => LaunchesFresh(r.kind)]_vars

\* a task of a kind has settled and a later start has launched a fresh one
C4_Witness ==
    \E t1 \in TaskIds, t2 \in TaskIds :
        /\ t1 < t2
        /\ tasks[t1].kind = tasks[t2].kind
        /\ tasks[t1].st = "settled"
        /\ tasks[t2].st = "running"
        /\ taskH[tasks[t2].kind] = t2
        /\ Cardinality(ActiveTasks(tasks[t2].kind)) = 1

\* C5: no state shows the failure of a task in lastError while running is
\* still true or the task handle is still set (the settle-time effects are one
\* atomic step).
C5_SettleIsAtomic ==
    \A t \in TaskIds :
        tasks[t].st = "caught" =>
            ~( /\ getRuntimeSnapshot[tasks[t].kind].lastError = formatError(tasks[t].err)
               /\ \/ getRuntimeSnapshot[tasks[t].kind].running
                  \/ taskH[tasks[t].kind] = t )

\* C6: stop(k) called when the task handle and the token of k are both null
\* returns at once and changes no status record (lastStopAt and lastError of k
\* included), no handle and no token.
C6_StopWithoutTaskIsNoop ==
    [][\A k \in Kinds :
          (StopBody(k) /\ abortCtl[k] = NoAbort /\ taskH[k] = NoTask) =>
              /\ getRuntimeSnapshot' = getRuntimeSnapshot
              /\ UNCHANGED <<runtime, abortCtl, taskH, tasks, aborted>>
              /\ UNCHANGED <<calls, spCall>>]_vars

\* stop may be called on a kind that has no task but has a stop time and a
\* last error to keep (the stop leaves this state as it is)
C6_Witness ==
    \E k \in Kinds \ {"whatsapp"} :
        /\ Drives(k)
        /\ abortCtl[k] = NoAbort /\ taskH[k] = NoTask
        /\ runtime[k].lastStopAt # NoTime
        /\ runtime[k].lastError # Null

\* the connector is disabled or its required configuration is absent
SkipCase(k, cfg) ==
    \/ cfg.disabled
    \/ k \in {"telegram", "discord"} /\ ~cfg.cred
    \/ k = "signal" /\ (~cfg.present \/ ~cfg.cred)
    \/ k = "imessage" /\ ~cfg.present

\* the step creates no task and no token, leaves running false and reason in
\* lastError of k, and the call is over
SkippedWith(k, reason) ==
    /\ UNCHANGED <<tasks, taskH, abortCtl, aborted>>
    /\ ~getRuntimeSnapshot'[k].running
    /\ getRuntimeSnapshot'[k].lastError = reason
    /\ \A r \in BagToSet(calls') : CopiesIn(r, calls') <= CopiesIn(r, calls)
    /\ spCall' = Idle

\* C7: start(k) with no task handle set and the connector disabled or not
\* configured (not linked, for the web connector) creates no task and no
\* token, leaves running false, sets lastError to the skip reason, and returns.
C7_SkippedStart ==
    [][/\ \A k \in StartCallable : taskH[k] = NoTask =>
             \A cfg \in Configs(k) : SkipCase(k, cfg) =>
                \A now \in Times :
                   StartCalled(k, cfg, now) =>
                      SkippedWith(k, IF cfg.disabled THEN "disabled" ELSE "not configured")
       /\ \A r \in InFlight, now \in Times :
             (r.kind = "whatsapp" /\ StartResume(r, FALSE, now)) =>
                 SkippedWith("whatsapp", "not linked")]_vars

\* a start was skipped: only a skipped start writes these reasons
C7_Witness ==
    /\ tasks = <<>>
    /\ \E k \in Kinds :
          /\ runtime[k].lastError \in {"disabled", "not configured", "not linked"}
          /\ ~runtime[k].running
          /\ taskH[k] = NoTask /\ abortCtl[k] = NoAbort

\* the order the claim gives
ClaimedOrder == <<"whatsapp", "discord", "telegram", "signal", "imessage">>

C9_FailureRecorded ==
    [][\A t \in TaskIds :
          (tasks[t].st = "caught" /\ tasks'[t].st = "settled") =>
              getRuntimeSnapshot'[tasks[t].kind].lastError = formatError(tasks[t].err)]_vars

\* the fields of the web status record other than those in keep are unchanged
WebFieldsKept(keep) ==
    \A f \in (DOMAIN runtime["whatsapp"]) \ keep :
        runtime'["whatsapp"][f] = runtime["whatsapp"][f]

\* C10 as claimed: markWhatsAppLoggedOut changes only lastError and connected
\* of the web record, and leaves running, the handle and the token as they were.
C10_MarkKeepsRunning ==
    [][\A cleared \in BOOLEAN :
          markWhatsAppLoggedOut(cleared) =>
              /\ WebFieldsKept({"lastError", "connected"})
              /\ UNCHANGED <<taskH, abortCtl>>]_vars

\* C10, amended: markWhatsAppLoggedOut sets running and connected to false,
\* sets lastError to "logged out" when cleared and keeps it otherwise, and
\* leaves every other field, the handle, the token and the tasks as they were.
C10_MarkClearsRunning ==
    [][\A cleared \in BOOLEAN :
          markWhatsAppLoggedOut(cleared) =>
              /\ WebFieldsKept({"lastError", "connected", "running"})
              /\ ~getRuntimeSnapshot'["whatsapp"].running
              /\ ~getRuntimeSnapshot'["whatsapp"].connected
              /\ getRuntimeSnapshot'["whatsapp"].lastError
                   = IF cleared THEN "logged out" ELSE runtime["whatsapp"].lastError
              /\ \A k \in Kinds \ {"whatsapp"} : runtime'[k] = runtime[k]
              /\ UNCHANGED <<taskH, abortCtl, tasks, aborted>>]_vars

\* the logged-out signal came while a task was active: the task is still
\* there, running is false
C10_Witness ==
    /\ runtime["whatsapp"].lastError = "logged out"
    /\ ~runtime["whatsapp"].running
    /\ taskH["whatsapp"] # NoTask
    /\ tasks[taskH["whatsapp"]].st = "running"
    /\ abortCtl["whatsapp"] = tasks[taskH["whatsapp"]].token

\* C11: when the connector pushes a status through the sink, every field of
\* the stored record that the pushed object does not report keeps its value.
C11_SinkMergesFields ==
    [][\A t \in TaskIds, next \in SinkStatuses :
          updateWhatsAppStatus(t, next) =>
              \A f \in {"lastDisconnect", "lastError"} :
                 next[f] = Unreported =>
                    getRuntimeSnapshot'["whatsapp"][f] = getRuntimeSnapshot["whatsapp"][f]]_vars

\* what a reader sees in the record object r: its fields, and the fields of
\* the object lastDisconnect refers to
DeepRec(r) ==
    [running |-> heapRec[r].running,
     lastDisconnect |-> IF heapRec[r].lastDisconnect = NullRef THEN NullRef
                        ELSE heapDisc[heapRec[r].lastDisconnect]]

\* what the manager's records hold
DeepLive == [k \in SnapKinds |-> DeepRec(liveRec[k])]

\* what snapshot s holds
DeepSnap(s) == [k \in SnapKinds |-> DeepRec(snapshots[s][k])]

\* C12: no assignment a caller makes on a returned snapshot, to a record or
\* to a field value, changes the manager's records, and no later write of the
\* manager changes a snapshot already returned.
C12_SnapshotSharesNothing ==
    [][/\ \A s \in 1..Len(snapshots) :
             ( \/ \E k \in SnapKinds, rn \in BOOLEAN : CallerSetsField(s, k, rn)
               \/ \E st \in DiscStatuses : CallerSetsNested(s, st) ) => DeepLive' = DeepLive
       /\ ( \/ \E k \in SnapKinds, rn \in BOOLEAN : SpreadWrite(k, rn)
            \/ \E rn \in BOOLEAN, withDisc \in BOOLEAN, st \in DiscStatuses :
                  SinkStore(rn, withDisc, st) ) =>
               \A s \in 1..Len(snapshots) : DeepSnap(s)' = DeepSnap(s)]_vars

\* C13: a stop aborts the token of the task it then waits for and waits
\* without a limit: no step of a stop leaves the token of the task in hand
\* unaborted, a suspended stop returns only in a step that finds its task
\* settled, and, an aborted task settling eventually, the suspended stops
\* all return, again and again.
C13_StopReturnsOnceTaskSettles ==
    /\ [][\A k \in Kinds :
            (taskH[k] # NoTask /\ tasks[taskH[k]].token \notin aborted') => ~StopBody(k)]_vars
    /\ [][calls' # calls =>
            \A r \in BagToSet(calls) :
               (r.pc = "stopAwait" /\ CopiesIn(r, calls') < CopiesIn(r, calls)) =>
                   tasks[r.awaiting].st = "settled"]_vars
    /\ []<>(\A t \in 1..MaxTasks : StopsOn(t) = {})

\* a stop is suspended on a task that is still running, its token aborted
C13_Witness ==
    \E r \in BagToSet(calls) :
        /\ r.pc = "stopAwait"
        /\ r.awaiting # NoTask
        /\ tasks[r.awaiting].st = "running"
        /\ tasks[r.awaiting].token \in aborted

\* the listener has been called with a request that is not a WebSocket upgrade
Arrived == req.pc \notin {"none", "ignored"}

\* hooks are configured and the path of the request is under the base path
OnHookPath == Arrived /\ hooksConfig.present /\ UnderBasePath(req.path, hooksConfig.basePath)

\* some function of fns has been called for the request
Ran(fns) == \E i \in 1..Len(req.log) : req.log[i] \in fns

\* what the hook handler does past authentication and the method check
BodyReaders == {"readJsonBody"}
Normalizers == {"normalizeWakePayload", "normalizeAgentPayload"}
MappingEngine == {"applyHookMappings"}
Dispatchers == {"dispatchWakeHook", "dispatchAgentHook"}

\* the request carries the configured token, in the header or, the header
\* carrying none, in the query
Authenticated ==
    (IF req.header # NoToken THEN req.header ELSE req.query) = hooksConfig.token

\* C14: a request on the hook path whose header token, or without a header
\* token its query token, is the configured one is never answered 401; any
\* other request on the hook path is answered 401 "Unauthorized" without the
\* body being read and without a normalizer, the mapping engine or a dispatch
\* callback being called.
C14_TokenDecidesAccess ==
    OnHookPath =>
        /\ Authenticated => req.res.status # 401
        /\ ~Authenticated =>
              /\ req.res = TextRes(401, "Unauthorized")
              /\ ~Ran(BodyReaders \cup Normalizers \cup MappingEngine \cup Dispatchers)

\* a wrong token in the header is not made good by the right one in the query
C14_Witness ==
    /\ OnHookPath
    /\ req.pc = "done"
    /\ req.header = "wrong"
    /\ req.query = "secret"
    /\ req.res.status = 401

\* C15 as stated: every request on the hook path whose method is not POST is
\* answered 405 with Allow: POST, and neither the body is read nor a dispatch
\* callback called.
C15_NonPostGets405 ==
    (OnHookPath /\ req.method # "POST") =>
        /\ req.res.status = 405
        /\ req.res.allow = "POST"
        /\ ~Ran(BodyReaders \cup Dispatchers)

\* C15: a request on the hook path whose method is not POST is answered 405
\* with Allow: POST if it carries the configured token and 401 if it does not;
\* in neither case is the body read or a dispatch callback called.
C15_NonPostGets405OnceAuthenticated ==
    (OnHookPath /\ req.method # "POST") =>
        /\ Authenticated => req.res.status = 405 /\ req.res.allow = "POST"
        /\ ~Authenticated => req.res.status = 401 /\ req.res.allow = ""
        /\ ~Ran(BodyReaders \cup Dispatchers)

\* a GET with the configured token has been answered
C15_Witness ==
    /\ OnHookPath
    /\ req.method = "GET"
    /\ Authenticated
    /\ req.pc = "done"
    /\ req.res.status = 405

\* the request is an authenticated POST to a sub-path of the hook base path
HookPost ==
    /\ OnHookPath
    /\ Authenticated
    /\ req.method = "POST"
    /\ SubPath(req.path, hooksConfig.basePath) # <<>>

\* the body of the request has been read
BodyWasRead == req.bodyJson # "unread"

\* C16: an authenticated POST to a hook sub-path whose body is larger than
\* maxBodyBytes is answered 413 {ok:false, error:"payload too large"}, one
\* whose body is within the limit and not valid JSON 400 {ok:false, error};
\* for neither is a normalizer, the mapping engine or a dispatch callback
\* called.
C16_UnreadableBodyRejected ==
    (HookPost /\ BodyWasRead) =>
        /\ req.bodyLen > hooksConfig.maxBodyBytes =>
              /\ req.res.status = 413
              /\ req.res.type = "application/json"
              /\ req.res.json = [NoJson EXCEPT !.ok = "false", !.error = "payload too large"]
              /\ ~Ran(Normalizers \cup MappingEngine \cup Dispatchers)
        /\ (req.bodyLen <= hooksConfig.maxBodyBytes /\ req.bodyJson = "invalid") =>
              /\ req.res.status = 400
              /\ req.res.type = "application/json"
              /\ req.res.json.ok = "false"
              /\ req.res.json.error # ""
              /\ ~Ran(Normalizers \cup MappingEngine \cup Dispatchers)

\* a body over the limit has been answered
C16_Witness ==
    /\ HookPost
    /\ BodyWasRead
    /\ req.bodyLen > hooksConfig.maxBodyBytes
    /\ req.pc = "done"
    /\ req.res.status = 413

\* the steps in which a readable body of a POST to sub-path route arrives
ReadableBodyAt(route, len, json) ==
    /\ req.pc = "readJsonBody"
    /\ SubPath(req.path, hooksConfig.basePath) = route
    /\ len <= hooksConfig.maxBodyBytes
    /\ json = "valid"

\* C17: when the readable body of an authenticated POST to {basePath}/wake
\* arrives, a payload the normalizer accepts makes one call of the wake
\* dispatch callback, with the normalized text and mode, answered 200
\* {ok:true, mode} once the callback returns, and a payload it rejects is
\* answered 400 without a dispatch; on {basePath}/agent the accepted payload
\* makes one call of the agent dispatch callback, answered 202 {ok:true, runId}
\* with the runId it returned.  The mapping engine is called for neither.
C17_BuiltInRoutes ==
    [][req.pc = "readJsonBody" =>
       \A len \in BodyLens, json \in {"valid", "invalid"}, wake \in WakeResults,
          agent \in AgentResults, runId \in RunIds, returns \in BOOLEAN :
          BodyRead(len, json, wake, agent, runId, returns) =>
             /\ ReadableBodyAt(<<"wake">>, len, json) =>
                   /\ ~Ran(MappingEngine)'
                   /\ wake.ok =>
                         /\ req'.dispatched = <<WakeCall(wake.text, wake.mode)>>
                         /\ returns =>
                               req'.res = sendJson(200, [NoJson EXCEPT !.ok = "true", !.mode = wake.mode])
                   /\ ~wake.ok =>
                         /\ req'.dispatched = <<>>
                         /\ req'.res.status = 400
             /\ ReadableBodyAt(<<"agent">>, len, json) =>
                   /\ ~Ran(MappingEngine)'
                   /\ agent.ok =>
                         /\ req'.dispatched = <<agent.value>>
                         /\ returns =>
                               req'.res = sendJson(202, [NoJson EXCEPT !.ok = "true", !.runId = runId])
                   /\ ~agent.ok =>
                         /\ req'.dispatched = <<>>
                         /\ req'.res.status = 400]_vars

\* a wake hook has been dispatched and answered
C17_Witness ==
    /\ HookPost
    /\ SubPath(req.path, hooksConfig.basePath) = <<"wake">>
    /\ Len(req.dispatched) = 1
    /\ req.res.status = 200
    /\ req.pc = "done"

\* the request is an authenticated POST to a sub-path that is no built-in route
CustomPost == HookPost /\ SubPath(req.path, hooksConfig.basePath) \notin {<<"wake">>, <<"agent">>}

\* the argument the agent dispatch callback is to get for the mapped action a
ExpectedAgentCall(a) ==
    AgentCall(a.message,
              IF a.name = NotGiven THEN "Hook" ELSE a.name,
              a.mode,
              IF a.sessionKey = NotGiven THEN "" ELSE a.sessionKey,
              a.deliver = "true",
              IF a.channel = NotGiven THEN "last" ELSE a.channel)

\* C18: an authenticated POST to a sub-path other than wake and agent whose
\* body is readable is answered 404 when no mapping rules are configured,
\* without the mapping engine being called; otherwise by the engine's result:
\* no match 404; a validation failure 400 with the engine's reason; a matched
\* rule without an action 204 with an empty body and no dispatch; a matched
\* wake action one wake dispatch and 200; a matched agent action one agent
\* dispatch (name "Hook", channel "last" when not given, deliver true only
\* when given as true) and 202 with the runId the callback returned.
C18_MappedRoutes ==
    /\ [][(req.pc = "readJsonBody" /\ hooksConfig.mappings = 0) =>
          \A len \in BodyLens, json \in {"valid", "invalid"}, wake \in WakeResults,
             agent \in AgentResults, runId \in RunIds, returns \in BOOLEAN :
             ( /\ BodyRead(len, json, wake, agent, runId, returns)
               /\ CustomPost /\ len <= hooksConfig.maxBodyBytes /\ json = "valid"
               /\ hooksConfig.mappings = 0 ) =>
                  /\ req'.res = TextRes(404, "Not Found")
                  /\ req'.dispatched = <<>>
                  /\ ~Ran(MappingEngine)']_vars
    /\ [][req.pc = "applyHookMappings" =>
          \A mapped \in MappedResults, runId \in RunIds :
             Mapped(FALSE, mapped, runId, TRUE) =>
                /\ ~mapped.matched => req'.res = TextRes(404, "Not Found") /\ req'.dispatched = <<>>
                /\ (mapped.matched /\ ~mapped.ok) =>
                      /\ req'.res = sendJson(400, [NoJson EXCEPT !.ok = "false", !.error = mapped.error])
                      /\ req'.dispatched = <<>>
                /\ (mapped.matched /\ mapped.ok /\ mapped.action.kind = "null") =>
                      /\ req'.res = [NoRes EXCEPT !.status = 204]
                      /\ req'.dispatched = <<>>
                /\ (mapped.matched /\ mapped.ok /\ mapped.action.kind = "wake") =>
                      /\ req'.dispatched = <<WakeCall(mapped.action.text, mapped.action.mode)>>
                      /\ req'.res = sendJson(200, [NoJson EXCEPT !.ok = "true", !.mode = mapped.action.mode])
                /\ (mapped.matched /\ mapped.ok /\ mapped.action.kind = "agent") =>
                      /\ req'.dispatched = <<ExpectedAgentCall(mapped.action)>>
                      /\ req'.res = sendJson(202, [NoJson EXCEPT !.ok = "true", !.runId = runId])]_vars

\* a mapped agent action that names no channel has been dispatched
C18_Witness ==
    /\ CustomPost
    /\ req.pc = "done"
    /\ req.res.status = 202
    /\ Len(req.dispatched) = 1
    /\ req.dispatched[1].channel = "last"
    /\ req.dispatched[1].name = "GitHub"

\* the listener accepts a request
ListenerServes ==
    \E upgrade \in BOOLEAN, method \in Methods, path \in Paths, header \in Tokens, query \in Tokens :
        Receive(upgrade, method, path, header, query)

\* C19: an error raised in the mapping block of the hook handler, by the
\* mapping engine or by the dispatch of a mapped action, is answered 500
\* there and never rejects the chain; an error anywhere else in the chain
\* rejects it and is answered 500 by the outermost catch; a rejected chain
\* always has that catch to run, every request during which something threw
\* ends with status 500, and the listener then accepts the next request.
C19_ErrorsAnswered500 ==
    /\ (Arrived /\ req.threw = "applyHookMappings") =>
          /\ req.pc # "rejected"
          /\ req.caught = "mapping"
          /\ req.res = sendJson(500, [NoJson EXCEPT !.ok = "false", !.error = "hook mapping failed"])
    /\ (Arrived /\ req.threw # "" /\ req.caught = "mapping") =>
          /\ Ran(MappingEngine)
          /\ req.pc # "rejected"
          /\ req.res.status = 500
    /\ (Arrived /\ req.threw # "" /\ req.caught # "mapping") =>
          /\ req.pc = "rejected" => ENABLED OuterCatch
          /\ req.pc # "rejected" => req.caught = "outer" /\ req.pc = "done"
    /\ (req.pc = "done" /\ req.threw # "") =>
          /\ req.res.status = 500
          /\ served < MaxReqs => ENABLED ListenerServes

\* a handler of the chain threw, the outermost catch has answered, and the
\* listener has a request left to accept
C19_Witness ==
    /\ req.pc = "done"
    /\ req.threw = "canvasHost.handleHttpRequest"
    /\ req.caught = "outer"
    /\ req.res.status = 500
    /\ served < MaxReqs

\* the handlers the listener composes
Handlers ==
    {"handleHooksRequest", "handleA2uiHttpRequest", "canvasHost.handleHttpRequest",
     "handleControlUiHttpRequest"}

IsHandler(fn) == fn \in Handlers

\* the handlers of this listener, in the order of the claim
Chain ==
    <<"handleHooksRequest">>
      \o (IF canvasHost THEN <<"handleA2uiHttpRequest", "canvasHost.handleHttpRequest">> ELSE <<>>)
      \o (IF controlUiEnabled THEN <<"handleControlUiHttpRequest">> ELSE <<>>)

\* the handlers called for the request so far, in the order of the calls
Consulted == SelectSeq(req.log, IsHandler)

\* C20: for a request that is not a WebSocket upgrade the handlers called are
\* the first handlers of the chain hooks, graphics/UI (if enabled), control
\* UI (if enabled), in that order; every handler called before the last one
\* called has declined; and a request the chain has finished without an error
\* was either handled by the last handler called or declined by the whole
\* chain and answered with the plain-text 404 "Not Found".
C20_HandlersInOrder ==
    Arrived =>
        /\ Len(Consulted) \in 1..Len(Chain)
        /\ Consulted = SubSeq(Chain, 1, Len(Consulted))
        /\ Len(req.declined) \in {Len(Consulted) - 1, Len(Consulted)}
        /\ req.declined = SubSeq(Consulted, 1, Len(req.declined))
        /\ (req.pc = "done" /\ req.threw = "" /\ req.declined = Consulted) =>
              /\ Consulted = Chain
              /\ req.res = TextRes(404, "Not Found")

\* all four handlers have declined a request
C20_Witness ==
    /\ req.pc = "done"
    /\ Len(req.declined) = 4
    /\ req.res.status = 404

\* the hook handler has returned false for the request
HooksDeclined ==
    \E i \in 1..Len(req.declined) : req.declined[i] = "handleHooksRequest"

\* C21: the hook handler returns false exactly when hooks are not configured
\* or the path of the request is neither the base path nor under it, whatever
\* the method and the tokens; when it returns false nothing has been written
\* to the response, the body has not been read and no normalizer, mapping
\* engine or dispatch callback has been called; a request it does not decline
\* is passed to no other handler, and when the handler returns for it, it
\* returns true with a response written.
C21_DeclinesOnlyOffPath ==
    Arrived =>
        /\ HooksDeclined <=>
              (~hooksConfig.present \/ ~UnderBasePath(req.path, hooksConfig.basePath))
        /\ HooksDeclined =>
              /\ ~Ran(BodyReaders \cup Normalizers \cup MappingEngine \cup Dispatchers)
              /\ req.pc = "hooks" => req.res = NoRes /\ ~req.handled
        /\ ~HooksDeclined =>
              /\ Consulted = <<"handleHooksRequest">>
              /\ req.pc \in {"readJsonBody", "applyHookMappings", "hooks", "rejected", "done"}
              /\ req.pc = "hooks" => req.handled /\ req.res.status # 0
              /\ (req.pc = "done" /\ req.threw = "") => req.handled /\ req.res.status # 0

\* an authenticated POST off the hook path has been declined, hooks being
\* configured, and the chain has not yet gone on
C21_Witness ==
    /\ hooksConfig.present
    /\ HooksDeclined
    /\ req.pc = "hooks"
    /\ req.method = "POST"
    /\ req.header = "secret"

\* normalizeVoiceWakeTriggers has returned
Normalized == wakeOutput # <<>>

\* the input has no entry that is a string with a character other than a blank
AllBlank ==
    \A i \in 1..Len(wakeInput.items) :
        ~wakeInput.items[i].isString \/ Trim(wakeInput.items[i].chars) = <<>>

\* C22: what normalizeVoiceWakeTriggers returns has at most 32 entries, each
\* of 1 to 64 characters with no blank at its start or at its end, and is the
\* default list when the input is not a list or has no entry other than blank
\* ones.
C22_OutputBounded ==
    Normalized =>
        /\ Len(wakeOutput) <= 32
        /\ \A i \in 1..Len(wakeOutput) :
              /\ Len(wakeOutput[i]) \in 1..64
              /\ wakeOutput[i][1] # " "
              /\ wakeOutput[i][Len(wakeOutput[i])] # " "
        /\ (~wakeInput.isArray \/ AllBlank) => wakeOutput = defaultVoiceWakeTriggers

\* the trimmed entries of the input that are not empty, in input order
TrimmedEntries ==
    LET raw == IF wakeInput.isArray THEN wakeInput.items ELSE <<>>
        trimmed == [i \in 1..Len(raw) |-> IF raw[i].isString THEN Trim(raw[i].chars) ELSE <<>>]
    IN  SelectSeq(trimmed, NotEmpty)

\* seq without the entries that equal an earlier one
RECURSIVE DedupByOrder(_)
DedupByOrder(seq) ==
    IF seq = <<>> THEN <<>>
    ELSE LET front == DedupByOrder(SubSeq(seq, 1, Len(seq) - 1))
             last == seq[Len(seq)]
         IN  IF \E i \in 1..Len(front) : front[i] = last THEN front ELSE Append(front, last)

\* C23: what normalizeVoiceWakeTriggers returns for a list with an entry that
\* is not blank has no two equal entries: it is the list of the distinct
\* trimmed phrases, each at the place of its first occurrence, cut to 32
\* entries, each entry cut to 64 characters.
C23_DeduplicatedByOrder ==
    (Normalized /\ wakeInput.isArray /\ ~AllBlank) =>
        /\ \A i, j \in 1..Len(wakeOutput) : i # j => wakeOutput[i] # wakeOutput[j]
        /\ LET kept == SliceTo(DedupByOrder(TrimmedEntries), 32)
           IN  wakeOutput = [i \in 1..Len(kept) |-> SliceTo(kept[i], 64)]

\* the text of a status or code field that is a number or a text
PartText(v) ==
    IF v.ty = "number" THEN ToString(v.n) ELSE IF v.ty = "string" THEN v.s ELSE ""

\* the parts that are not empty, joined by one blank
JoinParts(a, b) == IF a # "" /\ b # "" THEN a \o " " \o b ELSE a \o b

\* no structured dump of the value exists as a text: JSON has none for
\* undefined, and none for an object that refers to itself
NoDump(err) == err.kind \in {"undefined", "circular"}

\* the rule of the claim
ClaimedFormat(err) ==
    IF err.kind = "Error" THEN err.message
    ELSE IF err.kind = "string" THEN err.message
    ELSE IF JoinParts(PartText(err.status), PartText(err.code)) # ""
    THEN JoinParts(PartText(err.status), PartText(err.code))
    ELSE IF NoDump(err) THEN ToText(err)
    ELSE JsonDump(err)

\* C24: formatError returns a text for every input: the message of an Error;
\* else a text as it is; else the status and the code that are numbers or
\* texts, joined by one blank, an absent one left out; else the structured
\* dump of the value; else, there being no such dump, String(value).
C24_FormatsByRule ==
    errOutput # NotCalled =>
        /\ errOutput # UndefinedResult
        /\ errOutput = ClaimedFormat(errInput)

\* C25: while the last thing called for kind k is a stop that has returned,
\* with no start called since, no connector task of kind k is executing.
C25_NoTaskAfterStop ==
    \A k \in Kinds : stopReturned[k] => ActiveTasks(k) = {}

====
